---- MODULE Spec2Model ----
(***************************************************************************)
(* Validity predicate of the Ethereum bridge pool                          *)
(* (shared/src/ledger/native_vp/ethereum_bridge/bridge_pool_vp.rs).        *)
(*                                                                         *)
(* The ledger is a key-value storage.  A transaction stages writes on top  *)
(* of the committed (pre) storage, which gives the post storage and the    *)
(* set of changed keys; validate_tx then decides on the transaction from   *)
(* the transaction data, the two storage views and the changed keys.       *)
(***************************************************************************)
EXTENDS Integers, Sequences, FiniteSets, TLC

(***************************************************************************)
(* Bounds of the model.                                                    *)
(***************************************************************************)
\* The largest Amount (Amount::max(), scaled down): checked sums live in
\* 0..MaxAmount.
MaxAmount == 10000
\* The largest balance the storage of the explored transactions holds.
MaxBalance == 3
\* The largest gas fee a modelled transfer carries.
MaxFee == 2
\* The largest amount a modelled transfer moves.
MaxTransfer == 2

(***************************************************************************)
(* Option and Result values.                                               *)
(***************************************************************************)
None == << >>
Some(x) == << x >>
IsSome(o) == o # None
Unwrap(o) == o[1]

Ok(x) == [tag |-> "Ok", val |-> << x >>]
Err == [tag |-> "Err", val |-> << >>]
IsOk(r) == r.tag = "Ok"
Val(r) == r.val[1]

(***************************************************************************)
(* Addresses, tokens and storage keys.                                     *)
(***************************************************************************)
BRIDGE_POOL_ADDRESS == "EthBridgePool"
BRIDGE_ADDRESS == "EthBridge"
bertha == "bertha"
daewon == "daewon"

\* Ethereum addresses: an arbitrary ERC20 asset and the wrapped NAM contract.
ASSET == "asset"
wnam == "wnam"
EthAddresses == {ASSET, wnam}

\* Token addresses: the native token and the internal ERC20 / NUT addresses.
nam == <<"Established", "nam">>
native_token == nam
token(asset) == <<"Erc20", asset>>
nut(asset) == <<"Nut", asset>>
IsNut(addr) == addr[1] = "Nut"

balance_key(tok, owner) == <<"balance", tok, owner>>
get_pending_key(transfer) == <<"pool", "pending", transfer>>
get_signed_root_key == <<"pool", "signed_root", "-">>
is_bridge_pool_key(key) == key[1] = "pool"
whitelist_key(asset, suffix) == <<"whitelist", asset, suffix>>

\* TransferToEthereum::token_address via PendingTransfer::token_address
token_address(transfer) ==
    IF transfer.transfer.kind = "Erc20"
    THEN token(transfer.transfer.asset)
    ELSE nut(transfer.transfer.asset)

(***************************************************************************)
(* Storage: a function from the keys that hold a value to their values.    *)
(***************************************************************************)
read_value(storage, key) ==
    IF key \in DOMAIN storage THEN Some(storage[key]) ELSE None

read_native_erc20_address(storage) == wnam

(***************************************************************************)
(* AmountDelta and account_balance_delta.                                  *)
(***************************************************************************)
Positive(n) == [sign |-> "Positive", amount |-> n]
Negative(n) == [sign |-> "Negative", amount |-> n]

resolve(ad) ==
    IF ad.delta.sign = "Positive"
    THEN ad.base + ad.delta.amount
    ELSE ad.base - ad.delta.amount

\* Faulty variant: an unchanged balance counts as a debit of zero.
account_balance_delta_zero_debit(pre_s, post_s, tok, address) ==
    LET account_key == balance_key(tok, address)
        pre_v == read_value(pre_s, account_key)
        before == IF IsSome(pre_v) THEN Unwrap(pre_v) ELSE 0
        post_v == read_value(post_s, account_key)
    IN  IF ~IsSome(post_v) THEN None
        ELSE LET after == Unwrap(post_v)
             IN  Some([base |-> before,
                       delta |-> IF before >= after
                                 THEN Negative(before - after)
                                 ELSE Positive(after - before)])

\* Faulty variant: a balance that is missing before the transaction has no
\* delta, instead of a delta from zero.
account_balance_delta_pre_required(pre_s, post_s, tok, address) ==
    LET account_key == balance_key(tok, address)
        pre_v == read_value(pre_s, account_key)
        post_v == read_value(post_s, account_key)
    IN  IF ~IsSome(pre_v) \/ ~IsSome(post_v) THEN None
        ELSE LET before == Unwrap(pre_v)
                 after == Unwrap(post_v)
             IN  Some([base |-> before,
                       delta |-> IF before > after
                                 THEN Negative(before - after)
                                 ELSE Positive(after - before)])

\* Faulty variant: a balance that is missing before the transaction is
\* taken to be unchanged.
account_balance_delta_pre_as_post(pre_s, post_s, tok, address) ==
    LET account_key == balance_key(tok, address)
        pre_v == read_value(pre_s, account_key)
        post_v == read_value(post_s, account_key)
    IN  IF ~IsSome(post_v) THEN None
        ELSE LET after == Unwrap(post_v)
                 before == IF IsSome(pre_v) THEN Unwrap(pre_v) ELSE after
             IN  Some([base |-> before,
                       delta |-> IF before > after
                                 THEN Negative(before - after)
                                 ELSE Positive(after - before)])

\* Faulty variant: a balance that is missing after the transaction counts
\* as zero, like one that is missing before it.
account_balance_delta_post_default(pre_s, post_s, tok, address) ==
    LET account_key == balance_key(tok, address)
        pre_v == read_value(pre_s, account_key)
        before == IF IsSome(pre_v) THEN Unwrap(pre_v) ELSE 0
        post_v == read_value(post_s, account_key)
        after == IF IsSome(post_v) THEN Unwrap(post_v) ELSE 0
    IN  Some([base |-> before,
              delta |-> IF before > after
                        THEN Negative(before - after)
                        ELSE Positive(after - before)])

account_balance_delta(pre_s, post_s, tok, address) ==
    LET account_key == balance_key(tok, address)
        pre_v == read_value(pre_s, account_key)
        before == IF IsSome(pre_v) THEN Unwrap(pre_v) ELSE 0
        post_v == read_value(post_s, account_key)
    IN  IF ~IsSome(post_v) THEN None
        ELSE LET after == Unwrap(post_v)
             IN  Some([base |-> before,
                       delta |-> IF before > after
                                 THEN Negative(before - after)
                                 ELSE Positive(after - before)])

(***************************************************************************)
(* check_escrowed_toks_balance: Result<Option<AmountDelta>, Error>.        *)
(***************************************************************************)
\* Faulty variant: the credit of the escrow account is not compared with
\* the expected credit.
check_escrowed_toks_balance_debit_only(pre_s, post_s, delta) ==
    LET debit == account_balance_delta(pre_s, post_s, delta.token, delta.payer_account)
        credit == account_balance_delta(pre_s, post_s, delta.token, delta.escrow_account)
    IN  CASE /\ IsSome(debit) /\ Unwrap(debit).delta.sign = "Negative"
             /\ IsSome(credit) /\ Unwrap(credit).delta.sign = "Positive" ->
                IF Unwrap(debit).delta.amount = delta.expected_debit
                THEN Ok(credit)
                ELSE Ok(None)
          [] IsSome(debit) /\ Unwrap(debit).delta.sign = "Positive" -> Ok(None)
          [] IsSome(credit) /\ Unwrap(credit).delta.sign = "Negative" -> Ok(None)
          [] OTHER -> Err

\* Faulty variant: a leg that expects nothing passes when nothing moved.
check_escrowed_toks_balance_nil_passes(pre_s, post_s, delta) ==
    LET debit == account_balance_delta(pre_s, post_s, delta.token, delta.payer_account)
        credit == account_balance_delta(pre_s, post_s, delta.token, delta.escrow_account)
    IN  CASE /\ IsSome(debit) /\ Unwrap(debit).delta.sign = "Negative"
             /\ IsSome(credit) /\ Unwrap(credit).delta.sign = "Positive" ->
                IF /\ Unwrap(debit).delta.amount = delta.expected_debit
                   /\ Unwrap(credit).delta.amount = delta.expected_credit
                THEN Ok(credit)
                ELSE Ok(None)
          [] IsSome(debit) /\ Unwrap(debit).delta.sign = "Positive" ->
                IF /\ Unwrap(debit).delta.amount = 0 /\ delta.expected_debit = 0
                   /\ IsSome(credit) /\ Unwrap(credit).delta.sign = "Positive"
                   /\ Unwrap(credit).delta.amount = delta.expected_credit
                THEN Ok(credit)
                ELSE Ok(None)
          [] IsSome(credit) /\ Unwrap(credit).delta.sign = "Negative" -> Ok(None)
          [] OTHER -> Err

\* Faulty variant: an unresolved delta is an error before anything else.
check_escrowed_toks_balance_error_first(pre_s, post_s, delta) ==
    LET debit == account_balance_delta(pre_s, post_s, delta.token, delta.payer_account)
        credit == account_balance_delta(pre_s, post_s, delta.token, delta.escrow_account)
    IN  CASE ~IsSome(debit) \/ ~IsSome(credit) -> Err
          [] /\ Unwrap(debit).delta.sign = "Negative"
             /\ Unwrap(credit).delta.sign = "Positive" ->
                IF /\ Unwrap(debit).delta.amount = delta.expected_debit
                   /\ Unwrap(credit).delta.amount = delta.expected_credit
                THEN Ok(credit)
                ELSE Ok(None)
          [] OTHER -> Ok(None)

\* Faulty variant: the amount debited from the payer is not compared.
check_escrowed_toks_balance_credit_only(pre_s, post_s, delta) ==
    LET debit == account_balance_delta(pre_s, post_s, delta.token, delta.payer_account)
        credit == account_balance_delta(pre_s, post_s, delta.token, delta.escrow_account)
    IN  CASE /\ IsSome(debit) /\ Unwrap(debit).delta.sign = "Negative"
             /\ IsSome(credit) /\ Unwrap(credit).delta.sign = "Positive" ->
                IF Unwrap(credit).delta.amount = delta.expected_credit
                THEN Ok(credit)
                ELSE Ok(None)
          [] IsSome(debit) /\ Unwrap(debit).delta.sign = "Positive" -> Ok(None)
          [] IsSome(credit) /\ Unwrap(credit).delta.sign = "Negative" -> Ok(None)
          [] OTHER -> Err

\* Faulty variant: the sizes of the two deltas are compared, not their
\* directions.
check_escrowed_toks_balance_unsigned(pre_s, post_s, delta) ==
    LET debit == account_balance_delta(pre_s, post_s, delta.token, delta.payer_account)
        credit == account_balance_delta(pre_s, post_s, delta.token, delta.escrow_account)
    IN  IF ~IsSome(debit) \/ ~IsSome(credit) THEN Err
        ELSE IF /\ Unwrap(debit).delta.amount = delta.expected_debit
                /\ Unwrap(credit).delta.amount = delta.expected_credit
        THEN Ok(credit)
        ELSE Ok(None)

check_escrowed_toks_balance(pre_s, post_s, delta) ==
    LET debit == account_balance_delta(pre_s, post_s, delta.token, delta.payer_account)
        credit == account_balance_delta(pre_s, post_s, delta.token, delta.escrow_account)
    IN  CASE /\ IsSome(debit) /\ Unwrap(debit).delta.sign = "Negative"
             /\ IsSome(credit) /\ Unwrap(credit).delta.sign = "Positive" ->
                IF /\ Unwrap(debit).delta.amount = delta.expected_debit
                   /\ Unwrap(credit).delta.amount = delta.expected_credit
                THEN Ok(credit)
                ELSE Ok(None)
          [] IsSome(debit) /\ Unwrap(debit).delta.sign = "Positive" -> Ok(None)
          [] IsSome(credit) /\ Unwrap(credit).delta.sign = "Negative" -> Ok(None)
          [] OTHER -> Err

\* Faulty variant: a leg that transfers nothing is not checked.
check_escrowed_toks_nil_skipped(pre_s, post_s, delta) ==
    LET balance == check_escrowed_toks_balance(pre_s, post_s, delta)
    IN  IF delta.transferred_amount = 0 THEN Ok(TRUE)
        ELSE IF IsOk(balance) THEN Ok(IsSome(Val(balance))) ELSE Err

check_escrowed_toks(pre_s, post_s, delta) ==
    LET balance == check_escrowed_toks_balance(pre_s, post_s, delta)
    IN  IF IsOk(balance) THEN Ok(IsSome(Val(balance))) ELSE Err

(***************************************************************************)
(* sum_gas_and_token_amounts and determine_escrow_checks.                  *)
(***************************************************************************)
\* Faulty variant: the addition wraps around instead of failing.
sum_gas_and_token_amounts_wrapping(transfer) ==
    Ok((transfer.gas_fee.amount + transfer.transfer.amount) % (MaxAmount + 1))

sum_gas_and_token_amounts(transfer) ==
    IF transfer.gas_fee.amount + transfer.transfer.amount > MaxAmount
    THEN Err
    ELSE Ok(transfer.gas_fee.amount + transfer.transfer.amount)

\* Faulty variant: only NAM used for both legs shares the debited balance.
same_debited_address_native_only(wnam_address, transfer) ==
    LET tok_is_native_asset == transfer.transfer.asset = wnam_address
        same_sender_and_fee_payer == transfer.gas_fee.payer = transfer.transfer.sender
        gas_is_native_asset == transfer.gas_fee.token = native_token
    IN  same_sender_and_fee_payer /\ gas_is_native_asset /\ tok_is_native_asset

\* Whether the two legs are debited from one balance (lines 334-343).
same_debited_address(wnam_address, transfer) ==
    LET tok_is_native_asset == transfer.transfer.asset = wnam_address
        same_token_and_gas_erc20 == token_address(transfer) = transfer.gas_fee.token
        same_sender_and_fee_payer == transfer.gas_fee.payer = transfer.transfer.sender
        gas_is_native_asset == transfer.gas_fee.token = native_token
        gas_and_token_is_native_asset == gas_is_native_asset /\ tok_is_native_asset
        same_token_and_gas_asset ==
            gas_and_token_is_native_asset \/ same_token_and_gas_erc20
    IN  same_sender_and_fee_payer /\ same_token_and_gas_asset

\* Whether the two legs are credited to one balance (lines 326-327, 356).
same_credited_address(wnam_address, transfer) ==
    LET same_token_and_gas_erc20 == token_address(transfer) = transfer.gas_fee.token
    IN  same_token_and_gas_erc20

\* Faulty variant: the debits of the two legs are never summed.
expected_debits_per_leg(wnam_address, transfer) ==
    Ok(<<transfer.gas_fee.amount, transfer.transfer.amount>>)

\* (expected_gas_debit, expected_token_debit): Result of a pair.
expected_debits(wnam_address, transfer) ==
    IF same_debited_address(wnam_address, transfer)
    THEN LET debit == sum_gas_and_token_amounts(transfer)
         IN  IF IsOk(debit) THEN Ok(<<Val(debit), Val(debit)>>) ELSE Err
    ELSE Ok(<<transfer.gas_fee.amount, transfer.transfer.amount>>)

\* Faulty variant: the credits of the two legs are never summed.
expected_credits_per_leg(wnam_address, transfer) ==
    Ok(<<transfer.gas_fee.amount, transfer.transfer.amount>>)

\* (expected_gas_credit, expected_token_credit): Result of a pair.
expected_credits(wnam_address, transfer) ==
    IF same_credited_address(wnam_address, transfer)
    THEN LET credit == sum_gas_and_token_amounts(transfer)
         IN  IF IsOk(credit) THEN Ok(<<Val(credit), Val(credit)>>) ELSE Err
    ELSE Ok(<<transfer.gas_fee.amount, transfer.transfer.amount>>)

\* Faulty variant: the NAM of a wrapped NAM transfer is escrowed in the
\* bridge pool, like any other asset.
token_check_target_pool_only(wnam_address, transfer) ==
    IF transfer.transfer.asset = wnam_address
    THEN <<native_token, BRIDGE_POOL_ADDRESS>>
    ELSE <<token_address(transfer), BRIDGE_POOL_ADDRESS>>

\* Faulty variant: the value leg is always checked on the wrapped ERC20
\* ledger, whatever the kind of the transfer.
token_check_target_erc20_ledger(wnam_address, transfer) ==
    IF transfer.transfer.asset = wnam_address
    THEN <<native_token, BRIDGE_ADDRESS>>
    ELSE <<token(transfer.transfer.asset), BRIDGE_POOL_ADDRESS>>

\* (token_check_addr, token_check_escrow_acc)
token_check_target(wnam_address, transfer) ==
    IF transfer.transfer.asset = wnam_address
    THEN <<native_token, BRIDGE_ADDRESS>>
    ELSE <<token_address(transfer), BRIDGE_POOL_ADDRESS>>

\* (token, escrow account) of the gas leg.
gas_check_target(transfer) == <<transfer.gas_fee.token, BRIDGE_POOL_ADDRESS>>

EscrowDelta(tok, payer, escrow, debit, credit, transferred) ==
    [token |-> tok, payer_account |-> payer, escrow_account |-> escrow,
     expected_debit |-> debit, expected_credit |-> credit,
     transferred_amount |-> transferred]

determine_escrow_checks(wnam_address, transfer) ==
    LET debits == expected_debits(wnam_address, transfer)
        credits == expected_credits(wnam_address, transfer)
        gas_target == gas_check_target(transfer)
        token_target == token_check_target(wnam_address, transfer)
    IN  IF ~IsOk(debits) \/ ~IsOk(credits) THEN Err
        ELSE Ok([gas_check |->
                    EscrowDelta(gas_target[1], transfer.gas_fee.payer, gas_target[2],
                                Val(debits)[1], Val(credits)[1],
                                transfer.gas_fee.amount),
                 token_check |->
                    EscrowDelta(token_target[1], transfer.transfer.sender,
                                token_target[2],
                                Val(debits)[2], Val(credits)[2],
                                transfer.transfer.amount)])

(***************************************************************************)
(* EscrowDelta::validate and EscrowCheck::validate.                        *)
(***************************************************************************)
transferred_amount_is_nil(delta) == delta.transferred_amount = 0

check_escrow_keys_changed(delta, changed_keys) ==
    LET owner_key == balance_key(delta.token, delta.payer_account)
        escrow_key == balance_key(delta.token, delta.escrow_account)
    IN  owner_key \in changed_keys /\ escrow_key \in changed_keys

\* Faulty variant: one unchanged key of the leg is enough.
check_escrow_keys_unchanged_either(delta, changed_keys) ==
    LET owner_key == balance_key(delta.token, delta.payer_account)
        escrow_key == balance_key(delta.token, delta.escrow_account)
    IN  owner_key \notin changed_keys \/ escrow_key \notin changed_keys

check_escrow_keys_unchanged(delta, changed_keys) ==
    LET owner_key == balance_key(delta.token, delta.payer_account)
        escrow_key == balance_key(delta.token, delta.escrow_account)
    IN  owner_key \notin changed_keys /\ escrow_key \notin changed_keys

EscrowDelta_validate(delta, changed_keys) ==
    IF transferred_amount_is_nil(delta)
    THEN check_escrow_keys_unchanged(delta, changed_keys)
    ELSE check_escrow_keys_changed(delta, changed_keys)

EscrowCheck_validate(check, changed_keys) ==
    /\ EscrowDelta_validate(check.gas_check, changed_keys)
    /\ EscrowDelta_validate(check.token_check, changed_keys)

(***************************************************************************)
(* check_gas_escrow and check_wnam_escrow: Result<bool, Error>.            *)
(***************************************************************************)
\* Faulty variant: gas fees in NUTs are let through to the balance check.
check_gas_escrow_nut_allowed(pre_s, post_s, wnam_address, transfer, gas_check) ==
    IF gas_check.token = token(wnam_address) THEN Ok(FALSE)
    ELSE LET escrowed == check_escrowed_toks(pre_s, post_s, gas_check)
         IN  IF ~IsOk(escrowed) THEN Err
             ELSE IF ~Val(escrowed) THEN Ok(FALSE)
             ELSE Ok(TRUE)

check_gas_escrow(pre_s, post_s, wnam_address, transfer, gas_check) ==
    IF gas_check.token = token(wnam_address) THEN Ok(FALSE)
    ELSE IF IsNut(gas_check.token) THEN Ok(FALSE)
    ELSE LET escrowed == check_escrowed_toks(pre_s, post_s, gas_check)
         IN  IF ~IsOk(escrowed) THEN Err
             ELSE IF ~Val(escrowed) THEN Ok(FALSE)
             ELSE Ok(TRUE)

\* Faulty variant: the cap is compared with the balance escrowed before the
\* transaction.
check_wnam_escrow_cap_on_base(pre_s, post_s, wnam_address, transfer, token_check) ==
    IF transfer.transfer.kind = "Nut" THEN Ok(FALSE)
    ELSE
    LET wl == read_value(pre_s, whitelist_key(wnam_address, "whitelisted"))
        wnam_whitelisted == IF IsSome(wl) THEN Unwrap(wl) ELSE FALSE
        balance == check_escrowed_toks_balance(pre_s, post_s, token_check)
        cap == read_value(pre_s, whitelist_key(wnam_address, "cap"))
        wnam_cap == IF IsSome(cap) THEN Unwrap(cap) ELSE 0
    IN  IF ~wnam_whitelisted THEN Ok(FALSE)
        ELSE IF ~IsOk(balance) THEN Err
        ELSE IF ~IsSome(Val(balance)) THEN Ok(FALSE)
        ELSE IF Unwrap(Val(balance)).base > wnam_cap THEN Ok(FALSE)
        ELSE Ok(TRUE)

\* Faulty variant: an escrowed balance equal to the cap is over the cap.
check_wnam_escrow_cap_exclusive(pre_s, post_s, wnam_address, transfer, token_check) ==
    IF transfer.transfer.kind = "Nut" THEN Ok(FALSE)
    ELSE
    LET wl == read_value(pre_s, whitelist_key(wnam_address, "whitelisted"))
        wnam_whitelisted == IF IsSome(wl) THEN Unwrap(wl) ELSE FALSE
        balance == check_escrowed_toks_balance(pre_s, post_s, token_check)
        cap == read_value(pre_s, whitelist_key(wnam_address, "cap"))
        wnam_cap == IF IsSome(cap) THEN Unwrap(cap) ELSE 0
    IN  IF ~wnam_whitelisted THEN Ok(FALSE)
        ELSE IF ~IsOk(balance) THEN Err
        ELSE IF ~IsSome(Val(balance)) THEN Ok(FALSE)
        ELSE IF resolve(Unwrap(Val(balance))) >= wnam_cap THEN Ok(FALSE)
        ELSE Ok(TRUE)

\* Faulty variant: without a configured cap there is no cap.
check_wnam_escrow_uncapped_default(pre_s, post_s, wnam_address, transfer, token_check) ==
    IF transfer.transfer.kind = "Nut" THEN Ok(FALSE)
    ELSE
    LET wl == read_value(pre_s, whitelist_key(wnam_address, "whitelisted"))
        wnam_whitelisted == IF IsSome(wl) THEN Unwrap(wl) ELSE FALSE
        balance == check_escrowed_toks_balance(pre_s, post_s, token_check)
        cap == read_value(pre_s, whitelist_key(wnam_address, "cap"))
        wnam_cap == IF IsSome(cap) THEN Unwrap(cap) ELSE MaxAmount
    IN  IF ~wnam_whitelisted THEN Ok(FALSE)
        ELSE IF ~IsOk(balance) THEN Err
        ELSE IF ~IsSome(Val(balance)) THEN Ok(FALSE)
        ELSE IF resolve(Unwrap(Val(balance))) > wnam_cap THEN Ok(FALSE)
        ELSE Ok(TRUE)

\* Faulty variant: the whitelist flag is read after the transaction.
check_wnam_escrow_post_whitelist(pre_s, post_s, wnam_address, transfer, token_check) ==
    IF transfer.transfer.kind = "Nut" THEN Ok(FALSE)
    ELSE
    LET wl == read_value(post_s, whitelist_key(wnam_address, "whitelisted"))
        wnam_whitelisted == IF IsSome(wl) THEN Unwrap(wl) ELSE FALSE
        balance == check_escrowed_toks_balance(pre_s, post_s, token_check)
        cap == read_value(pre_s, whitelist_key(wnam_address, "cap"))
        wnam_cap == IF IsSome(cap) THEN Unwrap(cap) ELSE 0
    IN  IF ~wnam_whitelisted THEN Ok(FALSE)
        ELSE IF ~IsOk(balance) THEN Err
        ELSE IF ~IsSome(Val(balance)) THEN Ok(FALSE)
        ELSE IF resolve(Unwrap(Val(balance))) > wnam_cap THEN Ok(FALSE)
        ELSE Ok(TRUE)

\* Faulty variant: the kind of a wrapped NAM transfer is not looked at.
check_wnam_escrow_nut_allowed(pre_s, post_s, wnam_address, transfer, token_check) ==
    LET wl == read_value(pre_s, whitelist_key(wnam_address, "whitelisted"))
        wnam_whitelisted == IF IsSome(wl) THEN Unwrap(wl) ELSE FALSE
        balance == check_escrowed_toks_balance(pre_s, post_s, token_check)
        cap == read_value(pre_s, whitelist_key(wnam_address, "cap"))
        wnam_cap == IF IsSome(cap) THEN Unwrap(cap) ELSE 0
    IN  IF ~wnam_whitelisted THEN Ok(FALSE)
        ELSE IF ~IsOk(balance) THEN Err
        ELSE IF ~IsSome(Val(balance)) THEN Ok(FALSE)
        ELSE IF resolve(Unwrap(Val(balance))) > wnam_cap THEN Ok(FALSE)
        ELSE Ok(TRUE)

check_wnam_escrow(pre_s, post_s, wnam_address, transfer, token_check) ==
    IF transfer.transfer.kind = "Nut" THEN Ok(FALSE)
    ELSE
    LET wl == read_value(pre_s, whitelist_key(wnam_address, "whitelisted"))
        wnam_whitelisted == IF IsSome(wl) THEN Unwrap(wl) ELSE FALSE
        balance == check_escrowed_toks_balance(pre_s, post_s, token_check)
        cap == read_value(pre_s, whitelist_key(wnam_address, "cap"))
        wnam_cap == IF IsSome(cap) THEN Unwrap(cap) ELSE 0
    IN  IF ~wnam_whitelisted THEN Ok(FALSE)
        ELSE IF ~IsOk(balance) THEN Err
        ELSE IF ~IsSome(Val(balance)) THEN Ok(FALSE)
        ELSE IF resolve(Unwrap(Val(balance))) > wnam_cap THEN Ok(FALSE)
        ELSE Ok(TRUE)

(***************************************************************************)
(* validate_tx: Result<bool, Error>.  tx_data is the Option of the         *)
(* PendingTransfer the transaction data decodes to.                        *)
(***************************************************************************)
\* Faulty variant: the pool is not searched for the transfer.
already_in_pool_unchecked(pre_s, pending_key) == FALSE

\* The transfer is already in the pool (lines 549-566).
already_in_pool(pre_s, pending_key) == IsSome(read_value(pre_s, pending_key))

\* Faulty variant: the other keys of the bridge pool are not looked at.
foreign_pool_key_changed_unchecked(changed_keys, pending_key) == FALSE

\* Some other key of the bridge pool was changed (lines 567-578).
foreign_pool_key_changed(changed_keys, pending_key) ==
    \E key \in changed_keys : is_bridge_pool_key(key) /\ key # pending_key

\* Faulty variant: the record written to the pool is not compared.
wrong_transfer_added_unchecked(pending, transfer) == FALSE

\* The transfer written to the pool is the one of the tx data (line 584).
wrong_transfer_added(pending, transfer) == pending # transfer

check_escrows(pre_s, post_s, keys_changed, transfer) ==
    LET wnam_address == read_native_erc20_address(pre_s)
        escrow_checks == determine_escrow_checks(wnam_address, transfer)
    IN  IF ~IsOk(escrow_checks) THEN Err
        ELSE IF ~EscrowCheck_validate(Val(escrow_checks), keys_changed) THEN Ok(FALSE)
        ELSE LET gas == check_gas_escrow(pre_s, post_s, wnam_address, transfer,
                                         Val(escrow_checks).gas_check)
             IN  IF ~IsOk(gas) THEN Err
                 ELSE IF ~Val(gas) THEN Ok(FALSE)
                 ELSE IF transfer.transfer.asset = wnam_address
                 THEN check_wnam_escrow(pre_s, post_s, wnam_address, transfer,
                                        Val(escrow_checks).token_check)
                 ELSE check_escrowed_toks(pre_s, post_s,
                                          Val(escrow_checks).token_check)

\* Faulty variant: a transfer that was not written to the pool is rejected
\* like a wrong one.
validate_tx_unwritten_rejected(tx_data, pre_s, post_s, keys_changed) ==
    IF ~IsSome(tx_data) THEN Err
    ELSE
    LET transfer == Unwrap(tx_data)
        pending_key == get_pending_key(transfer)
        pending == read_value(post_s, pending_key)
    IN  IF already_in_pool(pre_s, pending_key) THEN Ok(FALSE)
        ELSE IF foreign_pool_key_changed(keys_changed, pending_key) THEN Ok(FALSE)
        ELSE IF ~IsSome(pending) THEN Ok(FALSE)
        ELSE IF wrong_transfer_added(Unwrap(pending), transfer) THEN Ok(FALSE)
        ELSE check_escrows(pre_s, post_s, keys_changed, transfer)

\* Faulty variant: the record is looked up in the pool before the duplicate
\* and the foreign-key checks.
validate_tx_presence_first(tx_data, pre_s, post_s, keys_changed) ==
    IF ~IsSome(tx_data) THEN Err
    ELSE
    LET transfer == Unwrap(tx_data)
        pending_key == get_pending_key(transfer)
        pending == read_value(post_s, pending_key)
    IN  IF ~IsSome(pending) THEN Err
        ELSE IF already_in_pool(pre_s, pending_key) THEN Ok(FALSE)
        ELSE IF foreign_pool_key_changed(keys_changed, pending_key) THEN Ok(FALSE)
        ELSE IF wrong_transfer_added(Unwrap(pending), transfer) THEN Ok(FALSE)
        ELSE check_escrows(pre_s, post_s, keys_changed, transfer)

validate_tx(tx_data, pre_s, post_s, keys_changed) ==
    IF ~IsSome(tx_data) THEN Err
    ELSE
    LET transfer == Unwrap(tx_data)
        pending_key == get_pending_key(transfer)
        pending == read_value(post_s, pending_key)
    IN  IF already_in_pool(pre_s, pending_key) THEN Ok(FALSE)
        ELSE IF foreign_pool_key_changed(keys_changed, pending_key) THEN Ok(FALSE)
        ELSE IF ~IsSome(pending) THEN Err
        ELSE IF wrong_transfer_added(Unwrap(pending), transfer) THEN Ok(FALSE)
        ELSE check_escrows(pre_s, post_s, keys_changed, transfer)

\* The verdict as the caller sees it.
Verdict(r) == IF ~IsOk(r) THEN "Error" ELSE IF Val(r) THEN "true" ELSE "false"

(***************************************************************************)
(* The transfers, the writes a transaction stages, and the ledger.         *)
(***************************************************************************)
VARIABLES
    pre,            \* the committed storage, as validate_tx reads it (pre)
    post,           \* the storage with the transaction's writes applied
    keys_changed,   \* the keys the transaction wrote or deleted
    tx,             \* the transaction data: Option of a PendingTransfer
    verdict,        \* "none" before validate_tx ran, then its verdict
    accepted        \* the transfers of the accepted transactions committed so far

vars == <<pre, post, keys_changed, tx, verdict, accepted>>

PendingTransfer(kind, asset, sender, recipient, amount, gas_token, gas_amount, payer) ==
    [transfer |-> [kind |-> kind, asset |-> asset, sender |-> sender,
                   recipient |-> recipient, amount |-> amount],
     gas_fee |-> [token |-> gas_token, amount |-> gas_amount, payer |-> payer]]

Kinds == {"Erc20", "Nut"}
GasTokens == {nam, token(ASSET), nut(ASSET), token(wnam)}
Senders == {bertha}
Payers == {bertha, daewon}
Recipient == "eth1"

\* The amounts of the transfers: the small ones, and the largest Amount.
Amounts == 0..MaxTransfer \cup {MaxAmount}

Transfers ==
    {PendingTransfer(k, a, s, Recipient, n, gt, g, p) :
        k \in Kinds, a \in EthAddresses, s \in Senders, n \in Amounts,
        gt \in GasTokens, g \in 0..MaxFee, p \in Payers}

\* The transfers that sit in the pool when the model starts (initial_pool).
initial_pool ==
    {PendingTransfer("Erc20", ASSET, bertha, "eth0", MaxTransfer, nam, MaxFee, bertha),
     PendingTransfer("Erc20", ASSET, bertha, "eth0", MaxTransfer, token(ASSET), MaxFee, daewon)}

\* The transfers a transaction of the model may carry.
Submitted == Transfers \cup initial_pool

\* The storage before any transaction of the model (new_writelog).
Genesis ==
    [k \in {get_signed_root_key} |-> "root"]
    @@ [k \in {get_pending_key(t) : t \in initial_pool} |-> k[3]]
    @@ [k \in {whitelist_key(wnam, "whitelisted")} |-> TRUE]
    @@ [k \in {whitelist_key(wnam, "cap")} |-> MaxBalance]
    @@ [k \in {balance_key(tok, u) : tok \in {nam, token(ASSET), nut(ASSET)},
                                     u \in {bertha, daewon}} |-> MaxBalance]
    @@ [k \in {balance_key(nam, BRIDGE_POOL_ADDRESS),
               balance_key(nam, BRIDGE_ADDRESS)} |-> 1]
    @@ [k \in {balance_key(token(ASSET), BRIDGE_POOL_ADDRESS)} |-> 0]

\* The escrow account and token of the value leg as a transaction would
\* use them when it moves tokens into escrow.
value_token(t) == IF t.transfer.asset = wnam THEN nam ELSE token_address(t)
value_escrow(t) ==
    IF t.transfer.asset = wnam THEN BRIDGE_ADDRESS ELSE BRIDGE_POOL_ADDRESS

balance_of(storage, tok, owner) ==
    IF balance_key(tok, owner) \in DOMAIN storage
    THEN storage[balance_key(tok, owner)] ELSE 0

\* A token transfer of m > 0 from src to dest written on top of storage
\* (both balance keys are written; a transfer to oneself writes the balance
\* as it was); nothing is written for m = 0.
move(storage, tok, src, dest, m) ==
    IF m = 0 THEN storage
    ELSE [k \in DOMAIN storage \cup {balance_key(tok, src), balance_key(tok, dest)} |->
            IF k = balance_key(tok, src) /\ src = dest THEN balance_of(storage, tok, src)
            ELSE IF k = balance_key(tok, src) THEN balance_of(storage, tok, src) - m
            ELSE IF k = balance_key(tok, dest) THEN balance_of(storage, tok, dest) + m
            ELSE storage[k]]

\* The balance writes of a transaction that moves mg of the gas token from
\* the payer to the pool and mv of the transferred token from the sender to
\* its escrow account.
escrow_moves(storage, t, mg, mv) ==
    LET after == move(move(storage, t.gas_fee.token, t.gas_fee.payer,
                           BRIDGE_POOL_ADDRESS, mg),
                      value_token(t), t.transfer.sender, value_escrow(t), mv)
        written == (IF mg = 0 THEN {}
                    ELSE {balance_key(t.gas_fee.token, t.gas_fee.payer),
                          balance_key(t.gas_fee.token, BRIDGE_POOL_ADDRESS)})
                   \cup
                   (IF mv = 0 THEN {}
                    ELSE {balance_key(value_token(t), t.transfer.sender),
                          balance_key(value_token(t), value_escrow(t))})
    IN  [k \in written |-> Some(after[k])]

InRange(w) == \A k \in DOMAIN w : IsSome(w[k]) => Unwrap(w[k]) \in 0..MaxBalance

\* The balance keys of the gas leg and of the value leg.
GasLegKeys(t) ==
    {balance_key(t.gas_fee.token, t.gas_fee.payer),
     balance_key(t.gas_fee.token, BRIDGE_POOL_ADDRESS)}
ValueLegKeys(t) ==
    {balance_key(value_token(t), t.transfer.sender),
     balance_key(value_token(t), value_escrow(t))}

\* Arbitrary writes to some of the keys: each changed key is given any
\* balance, or is deleted (None: the key is changed and holds nothing).
FreeWrites(keys) ==
    UNION {[ks -> {None} \cup {Some(v) : v \in 0..MaxBalance}] : ks \in SUBSET keys}

\* The balance writes of the model: one leg is written arbitrarily while
\* the other leg moves any amount into escrow.
BalanceWrites(storage, t) ==
    {w \in {fw @@ escrow_moves(storage, t, 0, mv) :
                fw \in FreeWrites(GasLegKeys(t)), mv \in 0..MaxTransfer}
            \cup
            {fw @@ escrow_moves(storage, t, mg, 0) :
                fw \in FreeWrites(ValueLegKeys(t)), mg \in 0..MaxFee} :
        InRange(w)}

\* The balance writes of a transaction that escrows nothing, or exactly the
\* fee and the amount of the transfer.
ExactMoves(storage, t) ==
    {w \in {<< >>, escrow_moves(storage, t, t.gas_fee.amount, t.transfer.amount)} :
        InRange(w)}

\* Transfers that differ from t in one field.
other(x, S) == CHOOSE y \in S : y # x
Variants(t) ==
    {[t EXCEPT !.transfer.amount = (@ + 1) % (MaxTransfer + 1)],
     [t EXCEPT !.transfer.sender = daewon],
     [t EXCEPT !.transfer.recipient = "eth2"],
     [t EXCEPT !.transfer.asset = other(@, EthAddresses)],
     [t EXCEPT !.transfer.kind = other(@, Kinds)],
     [t EXCEPT !.gas_fee.amount = (@ + 1) % (MaxFee + 1)]}

\* The transfer is written under its pending key, nothing else in the pool.
AddedToPool(t) == [k \in {get_pending_key(t)} |-> Some(t)]

\* What else a transaction may do to the keys of the bridge pool.
PoolWrites(t) ==
    {AddedToPool(t)}
    \cup {<< >>}
    \cup {[k \in {get_pending_key(t)} |-> None]}
    \cup {AddedToPool(t) @@ [k \in {get_signed_root_key} |-> Some("root2")]}
    \cup {[k \in {get_pending_key(t)} |-> Some(v)] : v \in Variants(t)}
    \cup {AddedToPool(t) @@ [k \in {get_pending_key(v)} |-> Some(t)] : v \in Variants(t)}

\* The transfer is written under the pending key of another transfer while
\* the changed keys name its own pending key (test_add_wrong_key).
WrongKeyWrites(t) == {[k \in {get_pending_key(v)} |-> Some(t)] : v \in Variants(t)}

\* What a transaction stages: its writes and the changed keys handed to the
\* validity predicate (the written keys, but for the wrong-key writes).
Staged(storage, t) ==
    {[writes |-> bw @@ AddedToPool(t), keys |-> DOMAIN (bw @@ AddedToPool(t))] :
        bw \in BalanceWrites(storage, t)}
    \cup
    {[writes |-> bw @@ pw, keys |-> DOMAIN (bw @@ pw)] :
        bw \in ExactMoves(storage, t), pw \in PoolWrites(t)}
    \cup
    {[writes |-> bw @@ pw, keys |-> DOMAIN bw \cup {get_pending_key(t)}] :
        bw \in ExactMoves(storage, t), pw \in WrongKeyWrites(t)}

apply_writes(storage, writes) ==
    LET keep == {k \in DOMAIN storage :
                    k \notin DOMAIN writes \/ IsSome(writes[k])}
        add == {k \in DOMAIN writes : IsSome(writes[k])}
    IN  [k \in keep \cup add |->
            IF k \in DOMAIN writes THEN Unwrap(writes[k]) ELSE storage[k]]

Init ==
    /\ pre = Genesis
    /\ post = Genesis
    /\ keys_changed = {}
    /\ tx = None
    /\ verdict = "none"
    /\ accepted = {}

\* A transaction executes (its writes are staged) and the bridge pool
\* validity predicate runs on it.
ValidateTx ==
    /\ verdict = "none"
    /\ \E t \in Submitted :
       \E s \in Staged(pre, t) :
         LET post_s == apply_writes(pre, s.writes)
         IN  /\ tx' = Some(t)
             /\ post' = post_s
             /\ keys_changed' = s.keys
             /\ verdict' = Verdict(validate_tx(Some(t), pre, post_s, s.keys))
    /\ UNCHANGED <<pre, accepted>>

\* A transaction without data reaches the validity predicate.
ValidateNoData ==
    /\ verdict = "none"
    /\ tx' = None
    /\ verdict' = Verdict(validate_tx(None, pre, post, keys_changed))
    /\ UNCHANGED <<pre, post, keys_changed, accepted>>

Next == ValidateTx \/ ValidateNoData

Spec == Init /\ [][Next]_vars

(***************************************************************************)
(* Wrapped NAM transfers under every configuration of the whitelist: the   *)
(* flag and the cap of wNAM are false, true or absent before the           *)
(* transaction, which may write them.                                      *)
(***************************************************************************)
WhitelistFlags == {None, Some(FALSE), Some(TRUE)}
Caps == {None, Some(MaxBalance - 1), Some(MaxBalance)}

\* Genesis with the whitelist flag and the cap of wNAM set to wl and cap.
Configured(wl, cap) ==
    LET config_keys == {whitelist_key(wnam, "whitelisted"), whitelist_key(wnam, "cap")}
        rest == [k \in DOMAIN Genesis \ config_keys |-> Genesis[k]]
        flag == IF IsSome(wl)
                THEN [k \in {whitelist_key(wnam, "whitelisted")} |-> Unwrap(wl)]
                ELSE << >>
        limit == IF IsSome(cap)
                 THEN [k \in {whitelist_key(wnam, "cap")} |-> Unwrap(cap)]
                 ELSE << >>
    IN  flag @@ limit @@ rest

Configurations == {Configured(wl, cap) : wl \in WhitelistFlags, cap \in Caps}

\* Transfers of wrapped NAM whose fee is paid in NAM.
WnamTransfers ==
    {t \in Transfers : t.transfer.asset = wnam /\ t.gas_fee.token = nam}

\* The transaction whitelists wNAM or sets its cap itself.
ConfigWrites ==
    {[k \in {whitelist_key(wnam, "whitelisted")} |-> Some(TRUE)],
     [k \in {whitelist_key(wnam, "cap")} |-> Some(MaxBalance)],
     [k \in {whitelist_key(wnam, "whitelisted")} |-> Some(TRUE)]
        @@ [k \in {whitelist_key(wnam, "cap")} |-> Some(MaxBalance)]}

\* What a wrapped NAM transaction stages: the value leg is written
\* arbitrarily while the gas leg moves any amount, or both legs are exact
\* and the configuration of wNAM is written.
StagedWnam(storage, t) ==
    {[writes |-> w @@ AddedToPool(t), keys |-> DOMAIN (w @@ AddedToPool(t))] :
        w \in {v \in {fw @@ escrow_moves(storage, t, mg, 0) :
                         fw \in FreeWrites(ValueLegKeys(t)), mg \in 0..MaxFee} :
                 InRange(v)}}
    \cup
    {[writes |-> bw @@ cw @@ AddedToPool(t),
      keys |-> DOMAIN (bw @@ cw @@ AddedToPool(t))] :
        bw \in ExactMoves(storage, t), cw \in ConfigWrites}

InitConfig ==
    /\ pre \in Configurations
    /\ post = pre
    /\ keys_changed = {}
    /\ tx = None
    /\ verdict = "none"
    /\ accepted = {}

ValidateWnamTx ==
    /\ verdict = "none"
    /\ \E t \in WnamTransfers :
       \E s \in StagedWnam(pre, t) :
         LET post_s == apply_writes(pre, s.writes)
         IN  /\ tx' = Some(t)
             /\ post' = post_s
             /\ keys_changed' = s.keys
             /\ verdict' = Verdict(validate_tx(Some(t), pre, post_s, s.keys))
    /\ UNCHANGED <<pre, accepted>>

NextConfig == ValidateWnamTx \/ ValidateNoData

ConfigSpec == InitConfig /\ [][NextConfig]_vars

(***************************************************************************)
(* The worked example of the same-account collapse: account A (bertha)     *)
(* pays a fee of 100 and sends 1000 of the wrapped ERC20 X (ASSET), out of *)
(* a balance of 5000, with nothing of X escrowed in the pool yet.  The     *)
(* transaction records the transfer and writes both balances of X.         *)
(***************************************************************************)
ExampleTransfer ==
    PendingTransfer("Erc20", ASSET, bertha, Recipient, 1000, token(ASSET), 100, bertha)

ExamplePre ==
    [k \in {balance_key(token(ASSET), bertha)} |-> 5000]
    @@ [k \in {balance_key(token(ASSET), BRIDGE_POOL_ADDRESS)} |-> 0]
    @@ Genesis

\* The balances the transaction of the example may leave behind.
ExampleBalances == {0, 50, 100, 1000, 1050, 1100, 1150, 3900, 3950, 4000, 5000}

ExampleWrites ==
    {[k \in {balance_key(token(ASSET), bertha)} |-> Some(a)]
     @@ [k \in {balance_key(token(ASSET), BRIDGE_POOL_ADDRESS)} |-> Some(p)]
     @@ AddedToPool(ExampleTransfer) :
        a \in ExampleBalances, p \in ExampleBalances}

InitExample ==
    /\ pre = ExamplePre
    /\ post = pre
    /\ keys_changed = {}
    /\ tx = None
    /\ verdict = "none"
    /\ accepted = {}

ValidateExampleTx ==
    /\ verdict = "none"
    /\ \E w \in ExampleWrites :
         LET post_s == apply_writes(pre, w)
         IN  /\ tx' = Some(ExampleTransfer)
             /\ post' = post_s
             /\ keys_changed' = DOMAIN w
             /\ verdict' = Verdict(validate_tx(Some(ExampleTransfer), pre, post_s,
                                               DOMAIN w))
    /\ UNCHANGED <<pre, accepted>>

NextExample == ValidateExampleTx \/ ValidateNoData

ExampleSpec == InitExample /\ [][NextExample]_vars

(***************************************************************************)
(* The two ledgers of an asset: transfers of ASSET of either kind, sent by *)
(* an account that may hold NUTs only, whose transaction may move the      *)
(* tokens on the ledger of the other kind.                                 *)
(***************************************************************************)
\* The token of the other kind of the transferred asset.
sibling_token(t) ==
    IF t.transfer.kind = "Erc20"
    THEN nut(t.transfer.asset)
    ELSE token(t.transfer.asset)

AssetTransfers ==
    {t \in Transfers : t.transfer.asset = ASSET /\ t.gas_fee.token = nam}

\* The sender holds NUTs of ASSET and no wrapped ERC20 (daewon's balances
\* in new_writelog).
NutHolderGenesis ==
    [k \in DOMAIN Genesis \ {balance_key(token(ASSET), bertha)} |-> Genesis[k]]

\* The fee is escrowed and the amount is moved on the other kind's ledger.
SiblingMoves(storage, t) ==
    {w \in {escrow_moves(storage,
                         [t EXCEPT !.transfer.kind = other(@, Kinds)],
                         t.gas_fee.amount, t.transfer.amount)} :
        InRange(w)}

\* The fee is escrowed and the balances of the other kind's ledger, moved
\* by the amount, are written to the ledger of the transfer's kind
\* (test_nut_aux with an Erc20 transfer).
CrossWrites(storage, t) ==
    LET sender_after == balance_of(storage, sibling_token(t), t.transfer.sender)
                            - t.transfer.amount
        pool_after == balance_of(storage, sibling_token(t), BRIDGE_POOL_ADDRESS)
                            + t.transfer.amount
    IN  {w \in {[k \in {balance_key(token_address(t), t.transfer.sender)}
                    |-> Some(sender_after)]
                @@ [k \in {balance_key(token_address(t), BRIDGE_POOL_ADDRESS)}
                    |-> Some(pool_after)]
                @@ escrow_moves(storage, t, t.gas_fee.amount, 0)} :
            InRange(w)}

StagedLedger(storage, t) ==
    {[writes |-> bw @@ AddedToPool(t), keys |-> DOMAIN (bw @@ AddedToPool(t))] :
        bw \in BalanceWrites(storage, t) \cup SiblingMoves(storage, t)
                \cup CrossWrites(storage, t)}

InitLedger ==
    /\ pre \in {Genesis, NutHolderGenesis}
    /\ post = pre
    /\ keys_changed = {}
    /\ tx = None
    /\ verdict = "none"
    /\ accepted = {}

ValidateAssetTx ==
    /\ verdict = "none"
    /\ \E t \in AssetTransfers :
       \E s \in StagedLedger(pre, t) :
         LET post_s == apply_writes(pre, s.writes)
         IN  /\ tx' = Some(t)
             /\ post' = post_s
             /\ keys_changed' = s.keys
             /\ verdict' = Verdict(validate_tx(Some(t), pre, post_s, s.keys))
    /\ UNCHANGED <<pre, accepted>>

NextLedger == ValidateAssetTx \/ ValidateNoData

LedgerSpec == InitLedger /\ [][NextLedger]_vars

(***************************************************************************)
(* Sequences of transactions: the writes of an accepted transaction are    *)
(* committed and become the storage the next transaction starts from; the  *)
(* writes of any other transaction are dropped.                            *)
(***************************************************************************)
SeqTransfers ==
    {t \in Transfers : /\ t.transfer.asset = ASSET /\ t.gas_fee.token = nam
                       /\ t.transfer.amount \in 1..MaxTransfer
                       /\ t.gas_fee.amount \in 1..MaxFee}

StagedSeq(storage, t) ==
    {[writes |-> bw @@ pw, keys |-> DOMAIN (bw @@ pw)] :
        bw \in ExactMoves(storage, t), pw \in PoolWrites(t)}

ValidateSeqTx ==
    /\ verdict = "none"
    /\ \E t \in SeqTransfers \cup initial_pool :
       \E s \in StagedSeq(pre, t) :
         LET post_s == apply_writes(pre, s.writes)
         IN  /\ tx' = Some(t)
             /\ post' = post_s
             /\ keys_changed' = s.keys
             /\ verdict' = Verdict(validate_tx(Some(t), pre, post_s, s.keys))
    /\ UNCHANGED <<pre, accepted>>

\* The writes of an accepted transaction are committed.
Commit ==
    /\ verdict = "true"
    /\ pre' = post
    /\ accepted' = accepted \cup {Unwrap(tx)}
    /\ keys_changed' = {}
    /\ tx' = None
    /\ verdict' = "none"
    /\ UNCHANGED post

\* The writes of a transaction that was not accepted are dropped.
Discard ==
    /\ verdict \in {"false", "Error"}
    /\ post' = pre
    /\ keys_changed' = {}
    /\ tx' = None
    /\ verdict' = "none"
    /\ UNCHANGED <<pre, accepted>>

NextSeq == ValidateSeqTx \/ ValidateNoData \/ Commit \/ Discard

SeqSpec == Init /\ [][NextSeq]_vars

(***************************************************************************)
(* Transfers whose gas payer or sender is an escrow account: the bridge    *)
(* pool pays the fee, or the escrow account of the value leg sends the     *)
(* tokens.                                                                 *)
(***************************************************************************)
SelfEscrowTransfers ==
    {t \in {PendingTransfer(k, a, s, Recipient, n, gt, g, p) :
                k \in Kinds, a \in EthAddresses,
                s \in {bertha, BRIDGE_POOL_ADDRESS, BRIDGE_ADDRESS},
                n \in 0..MaxTransfer, gt \in {nam, token(ASSET)},
                g \in 0..MaxFee, p \in {bertha, BRIDGE_POOL_ADDRESS}} :
        \/ t.gas_fee.payer = BRIDGE_POOL_ADDRESS
        \/ t.transfer.sender = value_escrow(t)}

StagedSelfEscrow(storage, t) ==
    {[writes |-> bw @@ AddedToPool(t), keys |-> DOMAIN (bw @@ AddedToPool(t))] :
        bw \in BalanceWrites(storage, t)}

ValidateSelfEscrowTx ==
    /\ verdict = "none"
    /\ \E t \in SelfEscrowTransfers :
       \E s \in StagedSelfEscrow(pre, t) :
         LET post_s == apply_writes(pre, s.writes)
         IN  /\ tx' = Some(t)
             /\ post' = post_s
             /\ keys_changed' = s.keys
             /\ verdict' = Verdict(validate_tx(Some(t), pre, post_s, s.keys))
    /\ UNCHANGED <<pre, accepted>>

NextSelfEscrow == ValidateSelfEscrowTx \/ ValidateNoData

SelfEscrowSpec == Init /\ [][NextSelfEscrow]_vars

(***************************************************************************)
(* Properties.  T is the transfer of the validated transaction; a leg's    *)
(* debit is the decrease of its payer's balance and its credit the         *)
(* increase of its escrow account's balance, from pre to post.             *)
(***************************************************************************)
Validated == verdict # "none" /\ IsSome(tx)
Accepted == Validated /\ verdict = "true"
T == Unwrap(tx)
Checks == determine_escrow_checks(wnam, T)

Decrease(tok, owner) == balance_of(pre, tok, owner) - balance_of(post, tok, owner)
Increase(tok, owner) == balance_of(post, tok, owner) - balance_of(pre, tok, owner)

GasDebit == Decrease(T.gas_fee.token, T.gas_fee.payer)
GasCredit == Increase(T.gas_fee.token, BRIDGE_POOL_ADDRESS)
ValueDebit == Decrease(value_token(T), T.transfer.sender)
ValueCredit == Increase(value_token(T), value_escrow(T))
Sum == T.gas_fee.amount + T.transfer.amount

\* The two legs are debited from one balance / credited to one balance.
SharedDebit ==
    T.gas_fee.payer = T.transfer.sender /\ T.gas_fee.token = value_token(T)
SharedCredit ==
    T.gas_fee.token = value_token(T) /\ value_escrow(T) = BRIDGE_POOL_ADDRESS

\* C1 (as stated): every accepted transfer has, in the gas leg and in the
\* value leg, a payer debit equal to the escrow credit.
C1_ConservationPerLeg ==
    Accepted => GasDebit = GasCredit /\ ValueDebit = ValueCredit

\* C1 (amended): for an accepted transfer the debit of each leg equals its
\* credit when the legs share both or neither of the debited and credited
\* balances; when only the debited balance is shared it drops by the sum
\* while each escrow grows by its own amount, and when only the credited
\* balance is shared it grows by the sum while each payer pays its own.
C1_ConservationAmended ==
    Accepted =>
        /\ (SharedDebit <=> SharedCredit) =>
              GasDebit = GasCredit /\ ValueDebit = ValueCredit
        /\ (SharedDebit /\ ~SharedCredit) =>
              /\ GasDebit = Sum /\ ValueDebit = Sum
              /\ GasCredit = T.gas_fee.amount /\ ValueCredit = T.transfer.amount
        /\ (SharedCredit /\ ~SharedDebit) =>
              /\ GasCredit = Sum /\ ValueCredit = Sum
              /\ GasDebit = T.gas_fee.amount /\ ValueDebit = T.transfer.amount

C1_Witness ==
    /\ Accepted
    /\ ~SharedDebit /\ ~SharedCredit
    /\ GasDebit = T.gas_fee.amount /\ ValueDebit = T.transfer.amount
    /\ T.gas_fee.amount # T.transfer.amount

\* C2: a transfer whose pending key holds a value in the pre storage is
\* rejected with false, whatever was written.
C2_DuplicateRejected ==
    (Validated /\ get_pending_key(T) \in DOMAIN pre) => verdict = "false"

without(storage, keys) == [k \in DOMAIN storage \ keys |-> storage[k]]

\* A duplicate that is accepted once the pool does not hold it yet.
C2_Witness ==
    /\ Validated
    /\ get_pending_key(T) \in DOMAIN pre
    /\ Verdict(validate_tx(tx, without(pre, {get_pending_key(T)}), post,
                           keys_changed)) = "true"

ForeignPoolKeys ==
    {k \in keys_changed : is_bridge_pool_key(k) /\ k # get_pending_key(T)}

\* C3: a new transfer whose transaction changed another key of the bridge
\* pool is rejected with false.
C3_NoCollateralPoolMutation ==
    (Validated /\ get_pending_key(T) \notin DOMAIN pre /\ ForeignPoolKeys # {})
        => verdict = "false"

\* The signed root changed next to a transfer that is otherwise accepted.
C3_Witness ==
    /\ Validated
    /\ get_pending_key(T) \notin DOMAIN pre
    /\ get_signed_root_key \in ForeignPoolKeys
    /\ read_value(post, get_pending_key(T)) = Some(T)
    /\ Verdict(validate_tx(tx, pre, post, keys_changed \ ForeignPoolKeys)) = "true"

\* C4: when the post storage holds, under the pending key, a transfer that
\* differs from the one of the tx data, the verdict is false.
C4_StoredRecordMustMatch ==
    (Validated /\ get_pending_key(T) \in DOMAIN post
               /\ post[get_pending_key(T)] # T) => verdict = "false"

\* A wrong record next to balances that the claimed transfer is accepted with.
C4_Witness ==
    /\ Validated
    /\ get_pending_key(T) \notin DOMAIN pre
    /\ ForeignPoolKeys = {}
    /\ get_pending_key(T) \in DOMAIN post
    /\ post[get_pending_key(T)] # T
    /\ Verdict(validate_tx(tx, pre, [post EXCEPT ![get_pending_key(T)] = T],
                           keys_changed)) = "true"

\* The key-presence rule for a leg that moves amount of tok from payer to
\* escrow: no key of the leg changed when amount is zero, both otherwise.
KeyRule(tok, payer, escrow, amount) ==
    LET leg_keys == {balance_key(tok, payer), balance_key(tok, escrow)}
    IN  IF amount = 0
        THEN leg_keys \cap keys_changed = {}
        ELSE leg_keys \subseteq keys_changed

\* C5: EscrowDelta::validate is true for a leg of zero amount exactly when
\* neither balance key of the leg was changed and for a leg of non-zero
\* amount exactly when both were; EscrowCheck::validate is the conjunction.
C5_KeyPresenceRule ==
    (Validated /\ IsOk(Checks)) =>
        LET gas == EscrowDelta_validate(Val(Checks).gas_check, keys_changed)
            val == EscrowDelta_validate(Val(Checks).token_check, keys_changed)
        IN  /\ gas <=> KeyRule(T.gas_fee.token, T.gas_fee.payer,
                               BRIDGE_POOL_ADDRESS, T.gas_fee.amount)
            /\ val <=> KeyRule(value_token(T), T.transfer.sender,
                               value_escrow(T), T.transfer.amount)
            /\ EscrowCheck_validate(Val(Checks), keys_changed) <=> (gas /\ val)

\* A gas leg of zero amount of which one key only was changed.
C5_Witness ==
    /\ Validated /\ IsOk(Checks)
    /\ T.gas_fee.amount = 0
    /\ balance_key(T.gas_fee.token, T.gas_fee.payer) \in keys_changed
    /\ balance_key(T.gas_fee.token, BRIDGE_POOL_ADDRESS) \notin keys_changed
    /\ ~EscrowDelta_validate(Val(Checks).gas_check, keys_changed)

BothComputable(delta) ==
    /\ balance_key(delta.token, delta.payer_account) \in DOMAIN post
    /\ balance_key(delta.token, delta.escrow_account) \in DOMAIN post

ExactlyEscrowed(delta) ==
    LET payer_pre == balance_of(pre, delta.token, delta.payer_account)
        payer_post == balance_of(post, delta.token, delta.payer_account)
        escrow_pre == balance_of(pre, delta.token, delta.escrow_account)
        escrow_post == balance_of(post, delta.token, delta.escrow_account)
    IN  /\ payer_post < payer_pre
        /\ payer_pre - payer_post = delta.expected_debit
        /\ escrow_post >= escrow_pre
        /\ escrow_post - escrow_pre = delta.expected_credit

\* C6: when both balance deltas of a leg can be computed,
\* check_escrowed_toks answers true exactly when the payer's balance
\* strictly decreased by the expected debit and the escrow account's
\* balance did not decrease and grew by the expected credit.
C6_BalanceDeltaCheck ==
    (Validated /\ IsOk(Checks)) =>
        \A delta \in {Val(Checks).gas_check, Val(Checks).token_check} :
            BothComputable(delta) =>
                check_escrowed_toks(pre, post, delta) = Ok(ExactlyEscrowed(delta))

\* Too much was withdrawn from the gas payer, the pool got the exact fee.
C6_Witness ==
    /\ Validated /\ IsOk(Checks)
    /\ BothComputable(Val(Checks).gas_check)
    /\ GasDebit > Val(Checks).gas_check.expected_debit
    /\ Val(Checks).gas_check.expected_debit > 0
    /\ GasCredit = Val(Checks).gas_check.expected_credit
    /\ check_escrowed_toks(pre, post, Val(Checks).gas_check) = Ok(FALSE)

\* The gas payer is the sender and the gas token is the transferred token:
\* the native token for a wrapped NAM transfer, or the same wrapped token.
NativeForBoth == T.gas_fee.token = native_token /\ T.transfer.asset = wnam
SameWrappedToken == T.gas_fee.token = token_address(T)
SameAccount ==
    T.gas_fee.payer = T.transfer.sender /\ (NativeForBoth \/ SameWrappedToken)

\* C7 (as stated): in the same-account case both legs expect a debit and a
\* credit of gas_fee.amount + transfer.amount.
C7_SameAccountCollapse ==
    (Validated /\ SameAccount /\ IsOk(Checks)) =>
        /\ Val(Checks).gas_check.expected_debit = Sum
        /\ Val(Checks).token_check.expected_debit = Sum
        /\ Val(Checks).gas_check.expected_credit = Sum
        /\ Val(Checks).token_check.expected_credit = Sum

\* C7 (amended): in the same-account case, when the sum is an Amount, both
\* legs expect a debit of the sum; they expect a credit of the sum when the
\* gas token is the transferred wrapped token, and otherwise (native token
\* for both) the gas leg expects a credit of the fee and the value leg one
\* of the transferred amount.
C7_SameAccountAmended ==
    (Validated /\ SameAccount /\ Sum <= MaxAmount) =>
        /\ IsOk(Checks)
        /\ Val(Checks).gas_check.expected_debit = Sum
        /\ Val(Checks).token_check.expected_debit = Sum
        /\ IF SameWrappedToken
           THEN /\ Val(Checks).gas_check.expected_credit = Sum
                /\ Val(Checks).token_check.expected_credit = Sum
           ELSE /\ Val(Checks).gas_check.expected_credit = T.gas_fee.amount
                /\ Val(Checks).token_check.expected_credit = T.transfer.amount

\* A wrapped NAM transfer whose sender pays the fee in NAM is accepted.
C7_Witness ==
    /\ Accepted /\ SameAccount /\ NativeForBoth
    /\ T.gas_fee.amount # T.transfer.amount

\* C8: when the gas token is the transferred wrapped token and the payer is
\* not the sender, both legs expect a credit of the sum and each leg the
\* debit of its own amount; an accepted transfer of that kind has the pool
\* grown by the sum, the payer debited by the fee and the sender by the
\* transferred amount.
C8_SameDestinationCollapse ==
    (Validated /\ SameWrappedToken /\ T.gas_fee.payer # T.transfer.sender) =>
        /\ IsOk(Checks) <=> Sum <= MaxAmount
        /\ IsOk(Checks) =>
              /\ Val(Checks).gas_check.expected_credit = Sum
              /\ Val(Checks).token_check.expected_credit = Sum
              /\ Val(Checks).gas_check.expected_debit = T.gas_fee.amount
              /\ Val(Checks).token_check.expected_debit = T.transfer.amount
        /\ verdict = "true" =>
              /\ Increase(T.gas_fee.token, BRIDGE_POOL_ADDRESS) = Sum
              /\ Decrease(T.gas_fee.token, T.gas_fee.payer) = T.gas_fee.amount
              /\ Decrease(T.gas_fee.token, T.transfer.sender) = T.transfer.amount

C8_Witness ==
    /\ Accepted /\ SameWrappedToken /\ T.gas_fee.payer # T.transfer.sender
    /\ T.gas_fee.amount # T.transfer.amount

\* A new transfer of a wrapped ERC20 or NUT token with the fee in NAM, added
\* under its key, no other pool key changed, the four balance keys changed,
\* and each leg debited and credited with exactly its amount.
HappyFlow ==
    LET tok == token_address(T)
        four == {balance_key(nam, T.gas_fee.payer),
                 balance_key(nam, BRIDGE_POOL_ADDRESS),
                 balance_key(tok, T.transfer.sender),
                 balance_key(tok, BRIDGE_POOL_ADDRESS)}
    IN  /\ T.transfer.asset # wnam
        /\ T.gas_fee.token = nam
        /\ T.transfer.amount > 0
        /\ get_pending_key(T) \notin DOMAIN pre
        /\ read_value(post, get_pending_key(T)) = Some(T)
        /\ ForeignPoolKeys = {}
        /\ four \subseteq keys_changed
        /\ four \subseteq DOMAIN post
        /\ Decrease(nam, T.gas_fee.payer) = T.gas_fee.amount
        /\ Increase(nam, BRIDGE_POOL_ADDRESS) = T.gas_fee.amount
        /\ Decrease(tok, T.transfer.sender) = T.transfer.amount
        /\ Increase(tok, BRIDGE_POOL_ADDRESS) = T.transfer.amount

\* C9 (as stated): the happy flow with independent legs is accepted.
C9_HappyFlow ==
    (Validated /\ HappyFlow) => verdict = "true"

\* C9 (amended): the happy flow with independent legs and a non-zero gas
\* fee is accepted.
C9_HappyFlowAmended ==
    (Validated /\ HappyFlow /\ T.gas_fee.amount > 0) => verdict = "true"

\* The happy flow of a NUT transfer whose fee another account pays.
C9_Witness ==
    /\ Validated /\ HappyFlow /\ T.gas_fee.amount > 0
    /\ T.transfer.kind = "Nut"
    /\ T.gas_fee.payer # T.transfer.sender
    /\ verdict = "true"

\* C10: the gas leg checks the balances of gas_fee.token of the payer and of
\* the bridge pool; the value leg checks NAM balances of the sender and of
\* the Ethereum bridge for a wrapped NAM transfer, and otherwise the
\* balances of the asset's wrapped ERC20 / NUT token of the sender and of
\* the bridge pool.  An accepted transfer moved its amount on those.
C10_EscrowAccountSelection ==
    (Validated /\ IsOk(Checks)) =>
        LET gas == Val(Checks).gas_check
            val == Val(Checks).token_check
        IN  /\ gas.token = T.gas_fee.token
            /\ gas.payer_account = T.gas_fee.payer
            /\ gas.escrow_account = BRIDGE_POOL_ADDRESS
            /\ val.payer_account = T.transfer.sender
            /\ IF T.transfer.asset = wnam
               THEN val.token = nam /\ val.escrow_account = BRIDGE_ADDRESS
               ELSE /\ val.token = <<T.transfer.kind, T.transfer.asset>>
                    /\ val.escrow_account = BRIDGE_POOL_ADDRESS
            /\ verdict = "true" =>
                  IF T.transfer.asset = wnam
                  THEN /\ Increase(nam, BRIDGE_ADDRESS) = T.transfer.amount
                       /\ Decrease(nam, T.transfer.sender) >= T.transfer.amount
                  ELSE /\ Increase(<<T.transfer.kind, T.transfer.asset>>,
                                   BRIDGE_POOL_ADDRESS) >= T.transfer.amount
                       /\ Decrease(<<T.transfer.kind, T.transfer.asset>>,
                                   T.transfer.sender) >= T.transfer.amount

\* An accepted wrapped NAM transfer whose fee another account pays.
C10_Witness ==
    /\ Accepted
    /\ T.transfer.asset = wnam
    /\ T.gas_fee.payer # T.transfer.sender
    /\ Increase(nam, BRIDGE_ADDRESS) = T.transfer.amount
    /\ Increase(nam, BRIDGE_POOL_ADDRESS) = T.gas_fee.amount

\* The pool membership check passes: the transfer is new, no other key of
\* the bridge pool changed, and the record stored is the one claimed.
MembershipPassed ==
    /\ get_pending_key(T) \notin DOMAIN pre
    /\ ForeignPoolKeys = {}
    /\ read_value(post, get_pending_key(T)) = Some(T)

ForbiddenGas == IsNut(T.gas_fee.token) \/ T.gas_fee.token = token(wnam)

\* A combined amount is needed: same-account or same-destination collapse.
Collapse == SameAccount \/ SameWrappedToken

\* C11 (as stated): a transfer that passes the pool membership check and
\* pays its gas in a NUT or in wrapped NAM gets the verdict false.
C11_ForbiddenGasTokens ==
    (Validated /\ MembershipPassed /\ ForbiddenGas) => verdict = "false"

\* C11 (amended): such a transfer gets the verdict false, unless its legs
\* need a combined amount that overflows: then the verdict is Error.
C11_ForbiddenGasAmended ==
    (Validated /\ MembershipPassed /\ ForbiddenGas) =>
        verdict = IF Collapse /\ Sum > MaxAmount THEN "Error" ELSE "false"

\* A fee in NUTs that was escrowed exactly, next to an exact value leg.
C11_Witness ==
    /\ Validated /\ MembershipPassed /\ IsNut(T.gas_fee.token)
    /\ ~Collapse
    /\ T.gas_fee.amount > 0 /\ T.transfer.amount > 0
    /\ check_escrowed_toks(pre, post, Val(Checks).gas_check) = Ok(TRUE)
    /\ check_escrowed_toks(pre, post, Val(Checks).token_check) = Ok(TRUE)
    /\ EscrowCheck_validate(Val(Checks), keys_changed)
    /\ verdict = "false"

\* C12: a transfer of kind NUT whose asset is the wrapped NAM address is
\* never accepted.
C12_WnamNutNeverAccepted ==
    (Validated /\ T.transfer.kind = "Nut" /\ T.transfer.asset = wnam)
        => verdict # "true"

\* Both legs of a wrapped NAM NUT transfer are what validate_tx accepts for
\* the same transfer of kind ERC20.
C12_Witness ==
    /\ Validated /\ MembershipPassed
    /\ T.transfer.kind = "Nut" /\ T.transfer.asset = wnam
    /\ LET erc20 == [T EXCEPT !.transfer.kind = "Erc20"]
           key == get_pending_key(erc20)
           stored == [k \in (DOMAIN post \ {get_pending_key(T)}) \cup {key} |->
                        IF k = key THEN erc20 ELSE post[k]]
       IN  Verdict(validate_tx(Some(erc20), pre, stored,
                               (keys_changed \ {get_pending_key(T)}) \cup {key}))
             = "true"
    /\ verdict = "false"

\* storage with value stored under key.
with(storage, key, value) ==
    [k \in DOMAIN storage \cup {key} |-> IF k = key THEN value ELSE storage[k]]

WhitelistedKey == whitelist_key(wnam, "whitelisted")
CapKey == whitelist_key(wnam, "cap")

\* C13: a transfer of wrapped NAM is accepted only if the whitelist flag
\* of wNAM is true in the pre storage; a flag that is false or absent
\* there, whatever the post storage holds, keeps it from being accepted.
C13_WhitelistGate ==
    (Validated /\ T.transfer.asset = wnam
               /\ read_value(pre, WhitelistedKey) # Some(TRUE))
        => verdict # "true"

\* The transaction itself whitelists wNAM; it is accepted once the flag is
\* true beforehand.
C13_Witness ==
    /\ Validated /\ T.transfer.asset = wnam
    /\ read_value(pre, WhitelistedKey) # Some(TRUE)
    /\ read_value(post, WhitelistedKey) = Some(TRUE)
    /\ Verdict(validate_tx(tx, with(pre, WhitelistedKey, TRUE), post,
                           keys_changed)) = "true"
    /\ verdict = "false"

\* The NAM escrowed in the Ethereum bridge account after the transaction.
EscrowedNam == balance_of(post, nam, BRIDGE_ADDRESS)

\* C14: with the cap C of wNAM in the pre storage, a transfer of wrapped
\* NAM after which the Ethereum bridge account holds more than C NAM is
\* never accepted, and its verdict is false when it is accepted under a
\* cap that is large enough.
C14_CapUpperBound ==
    (Validated /\ T.transfer.asset = wnam /\ CapKey \in DOMAIN pre
               /\ EscrowedNam > pre[CapKey]) =>
        /\ verdict # "true"
        /\ Verdict(validate_tx(tx, with(pre, CapKey, MaxAmount), post,
                               keys_changed)) = "true"
              => verdict = "false"

\* A transfer over the cap whose legs balance.
C14_Witness ==
    /\ Validated /\ T.transfer.asset = wnam /\ CapKey \in DOMAIN pre
    /\ EscrowedNam > pre[CapKey]
    /\ Increase(nam, BRIDGE_ADDRESS) = T.transfer.amount
    /\ Verdict(validate_tx(tx, with(pre, CapKey, MaxAmount), post,
                           keys_changed)) = "true"
    /\ verdict = "false"

\* A new ERC20 transfer of wrapped NAM, whitelisted, with a non-zero fee in
\* NAM, recorded under its key, whose balance keys were changed and whose
\* legs are exact: the pool gained the fee, the Ethereum bridge account the
\* amount, and the payer and the sender lost theirs (their sum when they
\* are one account).
WnamHappyFlow ==
    LET four == {balance_key(nam, T.gas_fee.payer),
                 balance_key(nam, BRIDGE_POOL_ADDRESS),
                 balance_key(nam, T.transfer.sender),
                 balance_key(nam, BRIDGE_ADDRESS)}
    IN  /\ T.transfer.asset = wnam /\ T.transfer.kind = "Erc20"
        /\ T.gas_fee.token = nam
        /\ T.gas_fee.amount > 0 /\ T.transfer.amount > 0
        /\ read_value(pre, WhitelistedKey) = Some(TRUE)
        /\ MembershipPassed
        /\ four \subseteq keys_changed
        /\ four \subseteq DOMAIN post
        /\ Increase(nam, BRIDGE_POOL_ADDRESS) = T.gas_fee.amount
        /\ Increase(nam, BRIDGE_ADDRESS) = T.transfer.amount
        /\ IF T.gas_fee.payer = T.transfer.sender
           THEN Decrease(nam, T.transfer.sender) = Sum
           ELSE /\ Decrease(nam, T.gas_fee.payer) = T.gas_fee.amount
                /\ Decrease(nam, T.transfer.sender) = T.transfer.amount

LegKeys ==
    {balance_key(T.gas_fee.token, T.gas_fee.payer),
     balance_key(T.gas_fee.token, BRIDGE_POOL_ADDRESS),
     balance_key(value_token(T), T.transfer.sender),
     balance_key(value_token(T), value_escrow(T))}

\* C16: for a transfer that passes the membership check, when a combined
\* amount is needed and gas_fee.amount + transfer.amount exceeds the largest
\* amount the verdict is Error; when no combined amount is needed the
\* expected amounts are computed whatever the amounts are, and no Error
\* comes out as long as the balances of the legs can be read.
C16_OverflowHardError ==
    (Validated /\ MembershipPassed) =>
        /\ (Collapse /\ Sum > MaxAmount) => verdict = "Error"
        /\ ~Collapse =>
              /\ IsOk(Checks)
              /\ LegKeys \subseteq DOMAIN post => verdict # "Error"

\* A transfer that needs the sum and overflows.
C16_Witness ==
    /\ Validated /\ MembershipPassed /\ Collapse /\ Sum > MaxAmount
    /\ LegKeys \subseteq DOMAIN post
    /\ verdict = "Error"

\* A transfer with independent legs whose amounts add up to more than the
\* largest amount: its expected amounts are computed and its balances read.
C16_WitnessIndependent ==
    /\ Validated /\ MembershipPassed /\ ~Collapse /\ Sum > MaxAmount
    /\ LegKeys \subseteq DOMAIN post /\ LegKeys \subseteq keys_changed
    /\ verdict = "false"

\* A balance of the leg is absent after the transaction.
PostBalanceAbsent(leg) ==
    \/ balance_key(leg.token, leg.payer_account) \notin DOMAIN post
    \/ balance_key(leg.token, leg.escrow_account) \notin DOMAIN post

\* C17: whenever the balance of the payer or of the escrow account of a
\* leg is absent after the transaction, the balance check of that leg is
\* an Error.
C17_MissingPostBalance ==
    (Validated /\ IsOk(Checks)) =>
        \A leg \in {Val(Checks).gas_check, Val(Checks).token_check} :
            PostBalanceAbsent(leg) =>
                check_escrowed_toks_balance(pre, post, leg) = Err

\* The balance keys that hold a value after the transaction.
PostBalanceKeys == {key \in DOMAIN post : key[1] = "balance"}

\* C18: a balance that is absent before the transaction counts as 0, so
\* the delta of an account credited for the first time is Positive(its
\* balance afterwards) from base 0, and the delta of an unchanged balance
\* is Positive(0).
C18_MissingPreBalanceIsZero ==
    Validated =>
        \A key \in PostBalanceKeys :
            LET d == account_balance_delta(pre, post, key[2], key[3])
            IN  /\ key \notin DOMAIN pre =>
                      d = Some([base |-> 0, delta |-> Positive(post[key])])
                /\ (key \in DOMAIN pre /\ pre[key] = post[key]) =>
                      d = Some([base |-> pre[key], delta |-> Positive(0)])

\* An accepted transfer credits an escrow balance that did not exist, and
\* leaves another balance as it was.
C18_Witness ==
    /\ Validated /\ verdict = "true"
    /\ \E key \in PostBalanceKeys :
          /\ key \notin DOMAIN pre /\ post[key] > 0
          /\ key = balance_key(value_token(T), value_escrow(T))
    /\ \E key \in PostBalanceKeys :
          key \in DOMAIN pre /\ pre[key] = post[key]

\* The transfer is new, no other key of the pool was changed, and nothing
\* is stored under its key after the transaction.
NotWritten ==
    /\ get_pending_key(T) \notin DOMAIN pre
    /\ ForeignPoolKeys = {}
    /\ get_pending_key(T) \notin DOMAIN post

\* The balances were escrowed correctly: the transfer is accepted once its
\* record is put under its key.
EscrowedCorrectly ==
    Verdict(validate_tx(tx, pre, with(post, get_pending_key(T), T),
                        keys_changed \cup {get_pending_key(T)})) = "true"

\* C19: a new transfer with no foreign key of the pool changed and no
\* value under its own key after the transaction gets the verdict Error.
C19_TransferNotWritten ==
    (Validated /\ NotWritten) => verdict = "Error"

\* The record was written under another key, with the balances escrowed
\* correctly.
C19_Witness ==
    /\ Validated /\ NotWritten /\ EscrowedCorrectly
    /\ \E key \in DOMAIN post \ DOMAIN pre :
          key # get_pending_key(T) /\ post[key] = T
    /\ verdict = "Error"

\* Nothing was written to the pool, with the balances escrowed correctly.
C19_WitnessNothingWritten ==
    /\ Validated /\ NotWritten /\ EscrowedCorrectly
    /\ \A key \in DOMAIN post \ DOMAIN pre : key[1] # "pool"
    /\ verdict = "Error"

\* The inputs of the worked example: the transfer, the balances before the
\* transaction, the record newly under its key, both balance keys changed,
\* and A left with 3900.
ExampleInputs ==
    /\ Validated /\ T = ExampleTransfer
    /\ balance_of(pre, token(ASSET), bertha) = 5000
    /\ balance_key(token(ASSET), BRIDGE_POOL_ADDRESS) \in DOMAIN pre
    /\ balance_of(pre, token(ASSET), BRIDGE_POOL_ADDRESS) = 0
    /\ MembershipPassed
    /\ {balance_key(token(ASSET), bertha),
         balance_key(token(ASSET), BRIDGE_POOL_ADDRESS)} \subseteq keys_changed
    /\ balance_of(post, token(ASSET), bertha) = 3900

\* C21: in the worked example (fee 100, amount 1000, payer = sender = A,
\* gas token = transferred token X, A from 5000 to 3900) the verdict is true
\* when the pool ends with 1100 of X and false when it ends with 1050.
C21_CollapseExample ==
    ExampleInputs =>
        /\ balance_of(post, token(ASSET), BRIDGE_POOL_ADDRESS) = 1100
              => verdict = "true"
        /\ balance_of(post, token(ASSET), BRIDGE_POOL_ADDRESS) = 1050
              => verdict = "false"

C21_Witness ==
    /\ ExampleInputs
    /\ balance_of(post, token(ASSET), BRIDGE_POOL_ADDRESS) = 1100
    /\ verdict = "true"

C21_WitnessShort ==
    /\ ExampleInputs
    /\ balance_of(post, token(ASSET), BRIDGE_POOL_ADDRESS) = 1050
    /\ verdict = "false"

GasLegOutcome ==
    Verdict(check_gas_escrow(pre, post, wnam, T, Val(Checks).gas_check))
ValueLegOutcome ==
    Verdict(IF T.transfer.asset = wnam
            THEN check_wnam_escrow(pre, post, wnam, T, Val(Checks).token_check)
            ELSE check_escrowed_toks(pre, post, Val(Checks).token_check))
FirstFailure ==
    IF get_pending_key(T) \in DOMAIN pre THEN "false"
    ELSE IF ForeignPoolKeys # {} THEN "false"
    ELSE IF get_pending_key(T) \notin DOMAIN post THEN "Error"
    ELSE IF post[get_pending_key(T)] # T THEN "false"
    ELSE IF Collapse /\ Sum > MaxAmount THEN "Error"
    ELSE IF ~(/\ KeyRule(T.gas_fee.token, T.gas_fee.payer, BRIDGE_POOL_ADDRESS,
                         T.gas_fee.amount)
              /\ KeyRule(value_token(T), T.transfer.sender, value_escrow(T),
                         T.transfer.amount))
         THEN "false"
    ELSE IF GasLegOutcome # "true" THEN GasLegOutcome
    ELSE ValueLegOutcome

\* A balance of one of the legs cannot be read after the transaction, in a
\* way that makes the balance check of that leg an Error.
LegUnreadable ==
    \E leg \in {Val(Checks).gas_check, Val(Checks).token_check} :
        check_escrowed_toks_balance(pre, post, leg) = Err

\* C23: the verdict of validate_tx is the outcome of the first failing
\* check in the order duplicate, foreign key, record present, record equal,
\* classification, key presence, gas leg, value leg; a duplicate is false
\* even with the record missing, and a key-presence failure is false even
\* with unreadable balances.
C23_SinglePassOrdering ==
    Validated => verdict = FirstFailure

\* The key-presence rule fails while a balance of a leg is unreadable.
C23_Witness ==
    /\ Validated /\ MembershipPassed /\ IsOk(Checks)
    /\ ~EscrowCheck_validate(Val(Checks), keys_changed)
    /\ LegUnreadable
    /\ verdict = "false"

\* A duplicate whose record is missing after the transaction.
C23_WitnessDuplicate ==
    /\ Validated
    /\ get_pending_key(T) \in DOMAIN pre
    /\ get_pending_key(T) \notin DOMAIN post
    /\ verdict = "false"

\* The payer's balance of the leg is there after the transaction and did
\* not decrease; the escrow account's is there and decreased.
PayerNotDebited(leg) ==
    /\ balance_key(leg.token, leg.payer_account) \in DOMAIN post
    /\ balance_of(post, leg.token, leg.payer_account)
          >= balance_of(pre, leg.token, leg.payer_account)
EscrowDrained(leg) ==
    /\ balance_key(leg.token, leg.escrow_account) \in DOMAIN post
    /\ balance_of(post, leg.token, leg.escrow_account)
          < balance_of(pre, leg.token, leg.escrow_account)

\* C24: in the balance check of a leg a payer whose balance did not
\* decrease, or an escrow account whose balance decreased, is a rejection
\* whatever the other delta is, computable or not; the check is an Error
\* exactly when a balance is absent and neither rejection applies.
C24_RejectionPrecedence ==
    (Validated /\ IsOk(Checks)) =>
        \A leg \in {Val(Checks).gas_check, Val(Checks).token_check} :
            LET balance == check_escrowed_toks_balance(pre, post, leg)
            IN  /\ PayerNotDebited(leg) => balance = Ok(None)
                /\ EscrowDrained(leg) => balance = Ok(None)
                /\ balance = Err <=>
                      /\ PostBalanceAbsent(leg)
                      /\ ~PayerNotDebited(leg)
                      /\ ~EscrowDrained(leg)

\* The gas leg decides the verdict: its payer was not debited and the
\* pool's balance of the gas token is absent.
C24_Witness ==
    /\ Validated /\ MembershipPassed /\ IsOk(Checks) /\ ~ForbiddenGas
    /\ EscrowCheck_validate(Val(Checks), keys_changed)
    /\ PayerNotDebited(Val(Checks).gas_check)
    /\ balance_key(T.gas_fee.token, BRIDGE_POOL_ADDRESS) \notin DOMAIN post
    /\ verdict = "false"

\* The gas leg is an Error: the payer was debited and the pool's balance of
\* the gas token is absent.
C24_WitnessError ==
    /\ Validated /\ MembershipPassed /\ IsOk(Checks) /\ ~ForbiddenGas
    /\ EscrowCheck_validate(Val(Checks), keys_changed)
    /\ ~PayerNotDebited(Val(Checks).gas_check)
    /\ balance_key(T.gas_fee.token, T.gas_fee.payer) \in DOMAIN post
    /\ balance_key(T.gas_fee.token, BRIDGE_POOL_ADDRESS) \notin DOMAIN post
    /\ verdict = "Error"

\* C17 (amended): whenever a balance of a leg is absent after the
\* transaction the balance check of that leg never succeeds: it is an
\* Error, unless the other account alone already rejects the leg (the payer
\* is there and was not debited, or the escrow account is there and was
\* drained), in which case it is a rejection.
C17_MissingPostBalanceAmended ==
    (Validated /\ IsOk(Checks)) =>
        \A leg \in {Val(Checks).gas_check, Val(Checks).token_check} :
            PostBalanceAbsent(leg) =>
                check_escrowed_toks_balance(pre, post, leg) =
                    IF PayerNotDebited(leg) \/ EscrowDrained(leg)
                    THEN Ok(None)
                    ELSE Err

\* The payer's balance of the gas token is absent after the transaction
\* while the pool was credited: the verdict is an Error.
C17_Witness ==
    /\ Validated /\ MembershipPassed /\ IsOk(Checks) /\ ~ForbiddenGas
    /\ EscrowCheck_validate(Val(Checks), keys_changed)
    /\ balance_key(T.gas_fee.token, T.gas_fee.payer) \notin DOMAIN post
    /\ balance_key(T.gas_fee.token, BRIDGE_POOL_ADDRESS) \in DOMAIN post
    /\ ~EscrowDrained(Val(Checks).gas_check)
    /\ verdict = "Error"

\* The balance keys of the sender and of the pool on the other kind's
\* ledger, and a storage without them.
SiblingKeys ==
    {balance_key(sibling_token(T), T.transfer.sender),
     balance_key(sibling_token(T), BRIDGE_POOL_ADDRESS)}
hide(storage, keys) == [k \in DOMAIN storage \ keys |-> storage[k]]

\* The transfer of the other kind, and the same transaction carrying it.
Sibling == [T EXCEPT !.transfer.kind = other(@, Kinds)]
SiblingVerdict ==
    Verdict(validate_tx(Some(Sibling), pre,
                        with(hide(post, {get_pending_key(T)}),
                             get_pending_key(Sibling), Sibling),
                        (keys_changed \ {get_pending_key(T)})
                            \cup {get_pending_key(Sibling)}))

\* C25: the value leg of a transfer of an asset other than wNAM is checked
\* on the ledger of its own kind only: the verdict is the same without the
\* balances of the other kind's ledger, and a transfer whose sender was not
\* debited on the ledger of its kind is not accepted.
C25_SeparateLedgers ==
    (Validated /\ T.transfer.asset # wnam /\ T.gas_fee.token = nam) =>
        /\ IsOk(Checks) => Val(Checks).token_check.token = token_address(T)
        /\ verdict = Verdict(validate_tx(tx, hide(pre, SiblingKeys),
                                         hide(post, SiblingKeys),
                                         keys_changed \ SiblingKeys))
        /\ Decrease(token_address(T), T.transfer.sender) <= 0
              => verdict # "true"

\* An ERC20 transfer by a sender without wrapped ERC20s whose transaction
\* moved the amount on the NUT ledger is rejected, and the NUT transfer with
\* the same balance changes is accepted.
C25_Witness ==
    /\ Validated /\ T.transfer.kind = "Erc20" /\ T.transfer.asset = ASSET
    /\ T.transfer.amount > 0 /\ T.gas_fee.amount > 0 /\ T.gas_fee.token = nam
    /\ MembershipPassed
    /\ balance_key(token(ASSET), T.transfer.sender) \notin DOMAIN pre
    /\ Decrease(nut(ASSET), T.transfer.sender) = T.transfer.amount
    /\ Increase(nut(ASSET), BRIDGE_POOL_ADDRESS) = T.transfer.amount
    /\ verdict = "false"
    /\ SiblingVerdict = "true"

\* C26: over a sequence of transactions in which the writes of every
\* accepted transaction become the storage of the next one, a transfer that
\* was accepted once gets the verdict false whenever it is carried again,
\* so it is accepted at most once.
C26_AtMostOneAcceptance ==
    (Validated /\ T \in accepted) => verdict = "false"

\* An accepted transfer is carried again by a transaction that records it
\* and escrows its fee and amount once more.
C26_Witness ==
    /\ Validated /\ T \in accepted
    /\ read_value(post, get_pending_key(T)) = Some(T)
    /\ ForeignPoolKeys = {}
    /\ Verdict(validate_tx(tx, hide(pre, {get_pending_key(T)}), post,
                           keys_changed)) = "true"
    /\ verdict = "false"

\* The total decrease of the debited accounts of the legs in a token, and
\* the total increase of their escrow accounts, each account counted once.
TotalDecrease(tok) ==
    LET gas == T.gas_fee.token = tok
        val == value_token(T) = tok
    IN  IF gas /\ val
        THEN IF T.gas_fee.payer = T.transfer.sender
             THEN Decrease(tok, T.gas_fee.payer)
             ELSE Decrease(tok, T.gas_fee.payer) + Decrease(tok, T.transfer.sender)
        ELSE IF gas THEN Decrease(tok, T.gas_fee.payer)
        ELSE IF val THEN Decrease(tok, T.transfer.sender)
        ELSE 0
TotalIncrease(tok) ==
    LET gas == T.gas_fee.token = tok
        val == value_token(T) = tok
    IN  IF gas /\ val
        THEN IF value_escrow(T) = BRIDGE_POOL_ADDRESS
             THEN Increase(tok, BRIDGE_POOL_ADDRESS)
             ELSE Increase(tok, BRIDGE_POOL_ADDRESS) + Increase(tok, value_escrow(T))
        ELSE IF gas THEN Increase(tok, BRIDGE_POOL_ADDRESS)
        ELSE IF val THEN Increase(tok, value_escrow(T))
        ELSE 0

\* C27: for every accepted transfer and each token of its legs the total
\* decrease of the debited accounts equals the total increase of the escrow
\* accounts, and over both legs the total is gas_fee.amount +
\* transfer.amount.
C27_GlobalConservation ==
    Accepted =>
        /\ \A tok \in {T.gas_fee.token, value_token(T)} :
              TotalDecrease(tok) = TotalIncrease(tok)
        /\ IF T.gas_fee.token = value_token(T)
           THEN TotalDecrease(T.gas_fee.token) = Sum
           ELSE TotalDecrease(T.gas_fee.token) + TotalDecrease(value_token(T)) = Sum

\* An accepted transfer of wrapped NAM paid by its sender: one balance is
\* debited for two escrow accounts.
C27_Witness ==
    /\ Accepted /\ T.transfer.asset = wnam /\ T.gas_fee.token = nam
    /\ T.gas_fee.payer = T.transfer.sender
    /\ TotalDecrease(nam) = Sum
    /\ Increase(nam, BRIDGE_POOL_ADDRESS) = T.gas_fee.amount
    /\ Increase(nam, BRIDGE_ADDRESS) = T.transfer.amount

C28_WitnessSharedKey ==
    /\ Validated /\ T.transfer.amount = 0 /\ T.gas_fee.amount > 0
    /\ MembershipPassed /\ SameAccount /\ IsOk(Checks)
    /\ EscrowDelta_validate(Val(Checks).gas_check, keys_changed)
    /\ ~EscrowDelta_validate(Val(Checks).token_check, keys_changed)
    /\ verdict = "false"

\* The payer account of a leg is the escrow account of that leg.
GasSelfEscrow == T.gas_fee.payer = BRIDGE_POOL_ADDRESS
ValueSelfEscrow == T.transfer.sender = value_escrow(T)

\* C29: a transfer in which the payer account of a leg is that leg's own
\* escrow account is never accepted.
C29_NoSelfEscrow ==
    (Validated /\ (GasSelfEscrow \/ ValueSelfEscrow)) => verdict # "true"

\* The bridge pool pays the fee to itself: its balance of the gas token
\* changes by the fee, the key rule holds and the value leg is escrowed
\* exactly.
C29_Witness ==
    /\ Validated /\ GasSelfEscrow /\ ~ValueSelfEscrow
    /\ T.gas_fee.amount > 0 /\ T.transfer.amount > 0
    /\ T.gas_fee.token = nam /\ T.transfer.asset = ASSET
    /\ MembershipPassed /\ IsOk(Checks)
    /\ EscrowCheck_validate(Val(Checks), keys_changed)
    /\ Decrease(nam, BRIDGE_POOL_ADDRESS) = T.gas_fee.amount
    /\ BothComputable(Val(Checks).token_check)
    /\ ExactlyEscrowed(Val(Checks).token_check)
    /\ verdict = "false"

\* The escrow account of the value leg sends the tokens to itself.
C29_WitnessValue ==
    /\ Validated /\ ValueSelfEscrow /\ ~GasSelfEscrow
    /\ T.gas_fee.amount > 0 /\ T.transfer.amount > 0
    /\ MembershipPassed /\ IsOk(Checks)
    /\ EscrowCheck_validate(Val(Checks), keys_changed)
    /\ BothComputable(Val(Checks).gas_check)
    /\ ExactlyEscrowed(Val(Checks).gas_check)
    /\ Increase(value_token(T), value_escrow(T)) = T.transfer.amount
    /\ verdict = "false"

\* The cap of wNAM before the transaction, 0 when none is stored.
PreCap == IF CapKey \in DOMAIN pre THEN pre[CapKey] ELSE 0

\* C30: without a cap for wNAM in the pre storage no transfer of wrapped
\* NAM is accepted; a transfer of wrapped NAM that is otherwise valid is
\* accepted exactly when the NAM the Ethereum bridge account holds after the
\* transaction is at most the cap stored before it, taken as 0 when absent.
C30_UnconfiguredCap ==
    (Validated /\ T.transfer.asset = wnam) =>
        /\ CapKey \notin DOMAIN pre => verdict # "true"
        /\ WnamHappyFlow => (verdict = "true" <=> EscrowedNam <= PreCap)

\* A whitelisted transfer of wrapped NAM with exact legs and no cap stored:
\* it is rejected, and accepted once a cap is there.
C30_Witness ==
    /\ Validated /\ WnamHappyFlow /\ CapKey \notin DOMAIN pre
    /\ EscrowedNam = balance_of(pre, nam, BRIDGE_ADDRESS) + T.transfer.amount
    /\ Verdict(validate_tx(tx, with(pre, CapKey, MaxAmount), post,
                           keys_changed)) = "true"
    /\ verdict = "false"

\* The transaction writes the cap itself: the stored cap is still absent.
C30_WitnessCapWritten ==
    /\ Validated /\ WnamHappyFlow
    /\ CapKey \notin DOMAIN pre /\ CapKey \in DOMAIN post
    /\ EscrowedNam <= post[CapKey]
    /\ verdict = "false"

====
